---- MODULE Spec2Model ----
(***************************************************************************)
(* The dataset cache pipeline of workflow/mixins.py                        *)
(* (CacheDatasetMixin.dispatch and CacheDatasetMixin.cache_dataset) as a   *)
(* state machine.  The relational store (Workflows, Dataset, DatasetData)  *)
(* is shared by all calls; every access of a call to the store or to the   *)
(* remote repository service is one atomic step, and the steps of          *)
(* different calls interleave freely.                                      *)
(***************************************************************************)
EXTENDS Integers, Sequences, FiniteSets, TLC

VARIABLES workflows, datasets, rows, calls, persisted, users, cache, remote

vars == <<workflows, datasets, rows, calls, persisted, users, cache, remote>>

\* the User table and the cache of UserIDMixin
idvars == <<users, cache>>

(***************************************************************************)
(* Bounds                                                                  *)
(***************************************************************************)
\* number of pipeline calls of one behaviour
MaxCalls == 3

Calls == 1..MaxCalls

\* number of failures of the store, of the remote service and of the wrapped
\* operation in one behaviour
MaxFaults == 1

(***************************************************************************)
(* Inputs of a call                                                        *)
(***************************************************************************)
Users == {"u1", "u2"}

\* request parameter task_type; "bogus" is not in the registry
TaskTypes == {"t1", "t2", "bogus"}

\* A reference string is the sequence of its "/"-separated parts; the empty
\* sequence is the absent (falsy) parameter.
NoRef == << >>
Refs == {NoRef, <<"a", "x">>, <<"b", "y">>, <<"c", "z">>, <<"n", "o">>, <<"bad">>}

\* the inputs of the calls that are handled concurrently
ConcUsers == Users
ConcTaskTypes == {"t1", "t2"}
ConcRefs == {NoRef, <<"a", "x">>, <<"b", "y">>}

\* Request header "User-Id": absent, or a string described by what uuid.UUID
\* makes of it (whether it parses, the version and the text form of the
\* UUID, and uid, the UUID it denotes)
NoToken == [present |-> FALSE, parses |-> FALSE, ver |-> 0, canon |-> FALSE, uid |-> ""]
Token(uid, ver, canon) ==
    [present |-> TRUE, parses |-> TRUE, ver |-> ver, canon |-> canon, uid |-> uid]
JunkToken == [present |-> TRUE, parses |-> FALSE, ver |-> 0, canon |-> FALSE, uid |-> ""]

\* u1's UUID is a version 4 one, written in canonical form or in capitals;
\* u2's is a version 1 UUID
Tokens == {NoToken, JunkToken, Token("u1", 4, TRUE), Token("u1", 4, FALSE), Token("u2", 1, TRUE)}

\* request header "role"; "" is the absent header
Roles == {"", "admin", "member"}

(***************************************************************************)
(* Task schema registry: canonical field -> source column                  *)
(***************************************************************************)
NoMapping == << >>

get_task_mapping(t) ==
    CASE t = "t1" -> <<[key |-> "input", col |-> "prompt"],
                       [key |-> "output", col |-> "response"]>>
      [] t = "t2" -> <<[key |-> "input", col |-> "text"],
                       [key |-> "output", col |-> "label"]>>
      [] OTHER -> NoMapping

(***************************************************************************)
(* UUID strings.  A value of an "id" cell is described by what uuid.UUID   *)
(* makes of it: whether it parses, its version, whether it is written in   *)
(* the canonical form, and which UUID it is.                               *)
(***************************************************************************)
SrcId(n, ver, canon) == [parses |-> TRUE, ver |-> ver, canon |-> canon, n |-> n, gen |-> <<>>]
Junk == [parses |-> FALSE, ver |-> 0, canon |-> FALSE, n |-> 0, gen |-> <<>>]

\* str(uuid.uuid4()) drawn by call c for row i of file f: distinct from every
\* other draw and from every id of a source file
uuid4(c, f, i) == [parses |-> TRUE, ver |-> 4, canon |-> TRUE, n |-> 0, gen |-> <<c, f, i>>]

\* (mutant) the comparison of line 95 is missing: whatever parses is valid
is_valid_uuid_NoRoundTrip(x) == x.parses

\* uuid.UUID(str, version=4) overwrites the version, so the round trip
\* str(uuid_obj) == str(x) holds only for a canonical version 4 string
is_valid_uuid(x) == x.parses /\ x.canon /\ x.ver = 4

(***************************************************************************)
(* The remote repository service                                           *)
(***************************************************************************)
File(name, cols, rws) == [name |-> name, cols |-> cols, rows |-> rws]
SrcRow(id, v) == [id |-> id, val |-> v]

AllCols == {"id", "prompt", "response", "text", "label"}

RepoAt(ref, v) ==
    CASE ref = <<"a", "x">> /\ v = 1 ->
           [exists |-> TRUE, sha |-> "sha_ax",
            files |-> <<File("README.md", {}, << >>),
                        File("train.csv", AllCols,
                             <<SrcRow(SrcId(1, 4, TRUE), "p1")>>)>>]
      [] ref = <<"a", "x">> /\ v = 2 ->
           \* the next commit: the row has another value
           [exists |-> TRUE, sha |-> "sha_ax_2",
            files |-> <<File("README.md", {}, << >>),
                        File("train.csv", AllCols,
                             <<SrcRow(SrcId(1, 4, TRUE), "p1_2")>>)>>]
      [] ref = <<"b", "y">> ->
           [exists |-> TRUE, sha |-> "sha_by",
            files |-> <<File("one.csv", {"prompt", "response"},
                             <<SrcRow(Junk, "q1")>>),
                        File("two.csv", {"prompt"},
                             <<SrcRow(Junk, "q2")>>)>>]
      [] ref = <<"c", "z">> ->
           [exists |-> TRUE, sha |-> "sha_cz",
            files |-> <<File("notes.txt", {}, << >>)>>]
      [] ref = <<"d", "w">> ->
           \* ids: a valid one, junk, a version 1 UUID, a version 4 UUID not
           \* in canonical form, and the valid one again
           [exists |-> TRUE, sha |-> "sha_dw",
            files |-> <<File("ids.csv", AllCols,
                             <<SrcRow(SrcId(2, 4, TRUE), "r1"),
                               SrcRow(Junk, "r2"),
                               SrcRow(SrcId(3, 1, TRUE), "r3"),
                               SrcRow(SrcId(4, 4, FALSE), "r4"),
                               SrcRow(SrcId(2, 4, TRUE), "r5")>>)>>]
      [] ref = <<"e", "v">> ->
           \* no "id" column
           [exists |-> TRUE, sha |-> "sha_ev",
            files |-> <<File("plain.csv", {"prompt", "response", "text", "label"},
                             <<SrcRow(Junk, "s1"), SrcRow(Junk, "s2")>>)>>]
      [] OTHER -> [exists |-> FALSE, sha |-> "", files |-> << >>]

\* what the remote service answers now: remote is the set of repositories
\* that have received their next commit
Repo(ref) == RepoAt(ref, IF ref \in remote THEN 2 ELSE 1)

IsCsv(name) == name \in {"train.csv", "one.csv", "two.csv", "ids.csv", "plain.csv"}

(***************************************************************************)
(* Sequence helpers                                                        *)
(***************************************************************************)
Range(s) == {s[i] : i \in DOMAIN s}

Min(S) == CHOOSE x \in S : \A y \in S : x <= y

RECURSIVE SeqOfSet(_)
\* the elements of a finite set of integers in increasing order
SeqOfSet(S) == IF S = {} THEN << >> ELSE <<Min(S)>> \o SeqOfSet(S \ {Min(S)})

RECURSIVE FilterSeq(_, _)
\* [f for f in repo_files if f.endswith(".csv")]
FilterSeq(fs, i) ==
    IF i > Len(fs) THEN << >>
    ELSE (IF IsCsv(fs[i].name) THEN <<fs[i].name>> ELSE << >>) \o FilterSeq(fs, i + 1)

(***************************************************************************)
(* The store                                                               *)
(***************************************************************************)
NoDataset ==
    [id |-> 0, workflow_id |-> 0, huggingface_id |-> "", name |-> "", type |-> "",
     is_locally_cached |-> FALSE, latest_commit_hash |-> ""]

\* (mutant) the queryset is ordered newest first
WorkflowsOf_NewestFirst(u) ==
    LET ws == SeqOfSet({w \in DOMAIN workflows : workflows[w].user_id = u})
    IN [k \in 1..Len(ws) |-> ws[Len(ws) + 1 - k]]

\* Workflows.objects.filter(user_id=user_id), evaluated: the ids of the
\* user's workflows, in creation order
WorkflowsOf(u) == SeqOfSet({w \in DOMAIN workflows : workflows[w].user_id = u})

\* QuerySet.first(): the matching record with the least primary key, or None
FirstOf(S) == IF S = {} THEN NoDataset ELSE datasets[Min(S)]

\* Dataset.objects.filter(workflow_id=w).first()
FirstDatasetOfWorkflow(w) ==
    FirstOf({d \in DOMAIN datasets : datasets[d].workflow_id = w})

\* (mutant) the filter also asks for is_locally_cached
FirstDatasetOfType_CachedOnly(t, w) ==
    FirstOf({d \in DOMAIN datasets :
               /\ datasets[d].type = t /\ datasets[d].workflow_id = w
               /\ datasets[d].is_locally_cached})

\* Dataset.objects.filter(type=t, workflow_id=w).first()
FirstDatasetOfType(t, w) ==
    FirstOf({d \in DOMAIN datasets :
               datasets[d].type = t /\ datasets[d].workflow_id = w})

(***************************************************************************)
(* A call: the request and the locals of dispatch and cache_dataset        *)
(***************************************************************************)
NoUser == [user_id |-> "", role |-> "", is_active |-> FALSE]

IdleCall ==
    [pc |-> "idle", idpc |-> "idle", token |-> NoToken, role |-> "", user |-> NoUser,
     lookups |-> 0, inserts |-> 0, user_id |-> "", task_type |-> "", dataset |-> NoRef,
     wfs |-> << >>, i |-> 0, workflow_id |-> 0, created |-> FALSE,
     dataset_object |-> NoDataset, repo |-> NoRef, sha |-> "",
     csv_file_names |-> << >>, csv_files |-> << >>, fi |-> 0, ri |-> 0,
     status |-> 0, exc |-> "", error |-> << >>, fault |-> "", op |-> FALSE,
     reads |-> 0, writes |-> 0, hf |-> 0, alone |-> TRUE, cached_before |-> {}]

Active(c) == calls[c].pc \notin {"idle", "done"}

Init ==
    /\ workflows = << >>
    /\ datasets = << >>
    /\ rows = {}
    /\ calls = [c \in Calls |-> IdleCall]
    /\ persisted = {}
    /\ users = << >>
    /\ cache = {}
    /\ remote = {}

\* The classes an exception is an instance of
Bases(exc) ==
    CASE exc = "ValueError" -> {"ValueError", "Exception"}
      [] exc = "FileNotFoundError" -> {"FileNotFoundError", "OSError", "Exception"}
      [] exc = "LocalEntryNotFoundError" ->
           {"LocalEntryNotFoundError", "FileNotFoundError", "ValueError", "OSError", "Exception"}
      [] exc = "HfHubHTTPError" -> {"HfHubHTTPError", "OSError", "Exception"}
      [] OTHER -> {exc, "Exception"}

\* (mutant) the clause of line 213 comes first
StatusOf_ExceptionFirst(exc) ==
    IF "Exception" \in Bases(exc) THEN 500
    ELSE IF "ValueError" \in Bases(exc) THEN 400
    ELSE 404

\* lines 207, 210 and 213: the first except clause that matches
StatusOf(exc) ==
    IF "ValueError" \in Bases(exc) THEN 400
    ELSE IF "FileNotFoundError" \in Bases(exc) THEN 404
    ELSE 500

\* the response of a failed call: Response({"error": str(e)}, status=st)
Fail(cl, st, msg) == [cl EXCEPT !.pc = "done", !.status = st, !.error = msg]

\* raise exc(msg) inside the try block of dispatch
Raise(cl, exc, msg) == Fail([cl EXCEPT !.exc = exc], StatusOf(exc), msg)


\* (mutant) line 183 is a plain else: created is not looked at
AfterBind_NoCreatedCheck(cl) ==
    IF cl.dataset # NoRef
    THEN IF Len(cl.dataset) # 2
         THEN Raise(cl, "ValueError", <<"not enough values to unpack">>)
         ELSE [cl EXCEPT !.pc = "find_ds"]
    ELSE [cl EXCEPT !.pc = "find_wf_ds"]

\* lines 160-196: the branch taken once workflow_id and created are known
AfterBind(cl) ==
    IF cl.dataset # NoRef
    THEN \* huggingface_id, dataset_name = dataset.split("/")
         IF Len(cl.dataset) # 2
         THEN Raise(cl, "ValueError", <<"not enough values to unpack">>)
         ELSE [cl EXCEPT !.pc = "find_ds"]
    ELSE IF ~cl.created
         THEN [cl EXCEPT !.pc = "find_wf_ds"]
         ELSE Raise(cl, "ValueError", <<"No dataset available.">>)

\* entry of cache_dataset(dataset_object, task_mapping, dataset)
StartCache(cl, ref) == [cl EXCEPT !.pc = "repo_exists", !.repo = ref]

\* the first column of the mapping that the file lacks, "" if none
MissingColumn(t, file) ==
    LET m == get_task_mapping(t)
        bad == {k \in DOMAIN m : m[k].col \notin file.cols}
    IN IF bad = {} THEN "" ELSE m[Min(bad)].col

RECURSIVE OpenFile_SkipBadFile(_, _)
\* (mutant) a file that lacks a column is passed over instead of raising
OpenFile_SkipBadFile(cl, k) ==
    IF k > Len(cl.csv_files)
    THEN [cl EXCEPT !.pc = "save_ds"]
    ELSE IF MissingColumn(cl.task_type, cl.csv_files[k]) # ""
            \/ cl.csv_files[k].rows = << >>
         THEN OpenFile_SkipBadFile(cl, k + 1)
         ELSE [cl EXCEPT !.pc = "save_row", !.fi = k, !.ri = 1]

RECURSIVE OpenFile_NoColumnCheck(_, _)
\* (mutant) lines 253-257 missing: the rows of a file are saved whatever its
\* columns
OpenFile_NoColumnCheck(cl, k) ==
    IF k > Len(cl.csv_files)
    THEN [cl EXCEPT !.pc = "save_ds"]
    ELSE IF cl.csv_files[k].rows = << >>
         THEN OpenFile_NoColumnCheck(cl, k + 1)
         ELSE [cl EXCEPT !.pc = "save_row", !.fi = k, !.ri = 1]

RECURSIVE OpenFile(_, _)
\* lines 250-257 for file k of csv_files: the column check; a file with no
\* rows is passed over; after the last file, line 283 is next
OpenFile(cl, k) ==
    IF k > Len(cl.csv_files)
    THEN [cl EXCEPT !.pc = "save_ds"]
    ELSE IF MissingColumn(cl.task_type, cl.csv_files[k]) # ""
         THEN Raise(cl, "ValueError", <<"Column", MissingColumn(cl.task_type, cl.csv_files[k]),
                                       cl.csv_files[k].name>>)
         ELSE IF cl.csv_files[k].rows = << >>
              THEN OpenFile(cl, k + 1)
              ELSE [cl EXCEPT !.pc = "save_row", !.fi = k, !.ri = 1]

\* lines 259-266: the id of row i of the file after reconciliation
RowId(c, file, i) ==
    IF "id" \in file.cols
    THEN IF is_valid_uuid(file.rows[i].id) THEN file.rows[i].id
                                          ELSE uuid4(c, file.name, i)
    ELSE uuid4(c, file.name, i)

\* row[csv_column]
Cell(r, col) == <<r.val, col>>

\* lines 270-278: the DatasetData built for row i of the file
RowData(c, cl, file, i) ==
    [id |-> RowId(c, file, i),
     dataset |-> cl.dataset_object.id,
     file |-> file.name,
     fields |-> LET m == get_task_mapping(cl.task_type)
                IN {<<m[k].key, Cell(file.rows[i], m[k].col)>> : k \in DOMAIN m}]

(***************************************************************************)
(* UserIDMixin.dispatch: the identity of the caller                        *)
(***************************************************************************)
\* lines 55, 60, 65: JsonResponse({"error": msg}, status=401)
Reject(cl, msg) ==
    [cl EXCEPT !.pc = "done", !.idpc = "rejected", !.status = 401, !.error = <<msg>>]

\* (mutant) lines 62-65 missing: the role is not checked
Identify_NoRoleCheck(c, tok, role) ==
    /\ calls[c].pc = "idle" /\ calls[c].idpc = "idle"
    /\ \A o \in Calls : o < c => calls[o].pc # "idle"
    /\ LET cl == [calls[c] EXCEPT !.token = tok, !.role = role]
       IN calls' = [calls EXCEPT ![c] =
             IF ~tok.present THEN Reject(cl, "User ID must be provided.")
             ELSE IF ~tok.parses THEN Reject(cl, "Invalid user ID format.")
             ELSE [cl EXCEPT !.idpc = "cache_get", !.user_id = tok.uid]]
    /\ UNCHANGED <<workflows, datasets, rows, persisted, users, cache, remote>>

\* lines 53-65: the headers are read and checked; user_id becomes the UUID
\* that uuid.UUID(user_id) parses, of whatever version and text form
Identify(c, tok, role) ==
    /\ calls[c].pc = "idle" /\ calls[c].idpc = "idle"
    /\ \A o \in Calls : o < c => calls[o].pc # "idle"
    /\ LET cl == [calls[c] EXCEPT !.token = tok, !.role = role]
       IN calls' = [calls EXCEPT ![c] =
             IF ~tok.present THEN Reject(cl, "User ID must be provided.")
             ELSE IF ~tok.parses THEN Reject(cl, "Invalid user ID format.")
             ELSE IF role = "" THEN Reject(cl, "Role must be provided.")
             ELSE [cl EXCEPT !.idpc = "cache_get", !.user_id = tok.uid]]
    /\ UNCHANGED <<workflows, datasets, rows, persisted, users, cache, remote>>

\* cache.set(f"user_{user_id}", user, timeout=3600)
CacheSet(user) == {e \in cache : e.user_id # user.user_id} \cup {user}

\* line 67: cache.get(f"user_{user_id}"); on a hit line 85 is next
CacheGet(c) ==
    /\ calls[c].idpc = "cache_get"
    /\ LET cl == [calls[c] EXCEPT !.lookups = @ + 1]
           hit == {e \in cache : e.user_id = cl.user_id}
       IN calls' = [calls EXCEPT ![c] =
             IF hit # {}
             THEN [cl EXCEPT !.user = CHOOSE e \in hit : TRUE, !.idpc = "resolved"]
             ELSE [cl EXCEPT !.idpc = "store_get"]]
    /\ UNCHANGED <<workflows, datasets, rows, persisted, users, cache, remote>>

\* (mutant) the lookup of line 70 always raises DoesNotExist
StoreGet_AlwaysMiss(c) ==
    /\ calls[c].idpc = "store_get"
    /\ calls' = [calls EXCEPT ![c] = [@ EXCEPT !.lookups = @ + 1, !.idpc = "create"]]
    /\ UNCHANGED <<workflows, datasets, rows, persisted, users, cache, remote>>

\* lines 70-72: User.objects.get(user_id=user_id) and, when it is found,
\* cache.set
StoreGet(c) ==
    /\ calls[c].idpc = "store_get"
    /\ LET cl == [calls[c] EXCEPT !.lookups = @ + 1]
           found == {k \in DOMAIN users : users[k].user_id = cl.user_id}
       IN IF found = {}
          THEN /\ calls' = [calls EXCEPT ![c] = [cl EXCEPT !.idpc = "create"]]
               /\ cache' = cache
          ELSE /\ calls' = [calls EXCEPT ![c] =
                     [cl EXCEPT !.user = users[Min(found)], !.idpc = "resolved"]]
               /\ cache' = CacheSet(users[Min(found)])
    /\ UNCHANGED <<workflows, datasets, rows, persisted, users, remote>>

\* lines 76-81: User.objects.create(user_id, role, is_active=True), cache.set
CreateUser(c) ==
    /\ calls[c].idpc = "create"
    /\ LET user == [user_id |-> calls[c].user_id, role |-> calls[c].role, is_active |-> TRUE]
       IN /\ users' = Append(users, user)
          /\ cache' = CacheSet(user)
          /\ calls' = [calls EXCEPT ![c] =
                [@ EXCEPT !.user = user, !.inserts = @ + 1, !.idpc = "resolved"]]
    /\ UNCHANGED <<workflows, datasets, rows, persisted, remote>>

\* timeout=3600: an entry of the cache expires
Expire(u) ==
    /\ \E e \in cache : e.user_id = u
    /\ cache' = {e \in cache : e.user_id # u}
    /\ UNCHANGED <<workflows, datasets, rows, persisted, users, calls, remote>>

(***************************************************************************)
(* The steps of a call                                                     *)
(***************************************************************************)
\* The Datasets with is_locally_cached set, of task type t, on workflows of
\* user u
CachedFor(u, t) ==
    {d \in DOMAIN datasets :
        /\ datasets[d].is_locally_cached
        /\ datasets[d].type = t
        /\ workflows[datasets[d].workflow_id].user_id = u}

\* (mutant) lines 129-130 missing: an unknown task type goes on to the scan
Dispatch_NoMappingCheck(c, u, t, ref) ==
    /\ calls[c].pc = "idle"
    /\ \A o \in Calls : o < c => calls[o].pc # "idle"
    /\ LET cl == [calls[c] EXCEPT !.user_id = u, !.task_type = t, !.dataset = ref,
                                  !.alone = \A o \in Calls : ~Active(o),
                                  !.cached_before = CachedFor(u, t)]
       IN calls' = [o \in Calls |->
                       IF o = c
                       THEN [cl EXCEPT !.pc = "query_wfs"]
                       ELSE IF Active(o) THEN [calls[o] EXCEPT !.alone = FALSE]
                                         ELSE calls[o]]
    /\ UNCHANGED <<workflows, datasets, rows, persisted, users, cache, remote>>

\* lines 109-130: the request is read and the task mapping looked up.  The
\* calls are numbered in the order they arrive.  Kept for the properties:
\* alone (no other call is handled during this one), cached_before (the
\* cached Datasets of the user and task type when the call arrives), and
\* the numbers of reads and writes of the store and of requests to the
\* remote service.
Dispatch(c, u, t, ref) ==
    /\ calls[c].pc = "idle"
    /\ \A o \in Calls : o < c => calls[o].pc # "idle"
    /\ LET cl == [calls[c] EXCEPT !.user_id = u, !.task_type = t, !.dataset = ref,
                                  !.alone = \A o \in Calls : ~Active(o),
                                  !.cached_before = CachedFor(u, t)]
           task_mapping == get_task_mapping(t)
       IN calls' = [o \in Calls |->
                       IF o = c
                       THEN IF task_mapping = NoMapping
                            THEN Raise(cl, "ValueError", <<"Please give a valid task type.">>)
                            ELSE [cl EXCEPT !.pc = "query_wfs"]
                       ELSE IF Active(o) THEN [calls[o] EXCEPT !.alone = FALSE]
                                         ELSE calls[o]]
    /\ UNCHANGED <<workflows, datasets, rows, persisted, users, cache, remote>>

\* line 132: the queryset of line 113 is evaluated
QueryWorkflows(c) ==
    /\ calls[c].pc = "query_wfs"
    /\ LET cl == [calls[c] EXCEPT !.wfs = WorkflowsOf(calls[c].user_id), !.reads = @ + 1]
       IN calls' = [calls EXCEPT ![c] =
                       IF cl.wfs = << >> THEN [cl EXCEPT !.pc = "create_wf"]
                                         ELSE [cl EXCEPT !.pc = "scan", !.i = 1]]
    /\ UNCHANGED <<workflows, datasets, rows, persisted, users, cache, remote>>

\* (mutant) line 143 missing: the loop goes on after a match, the last match
\* is kept
ScanStep_NoBreak(c) ==
    /\ calls[c].pc = "scan"
    /\ LET cl == [calls[c] EXCEPT !.reads = @ + 1]
           w == cl.wfs[cl.i]
           test_dataset == FirstDatasetOfWorkflow(w)
           hit == test_dataset.id # 0 /\ test_dataset.type = cl.task_type
           nx == IF hit THEN [cl EXCEPT !.workflow_id = w] ELSE cl
       IN calls' = [calls EXCEPT ![c] =
                       IF cl.i < Len(cl.wfs)
                       THEN [nx EXCEPT !.i = @ + 1]
                       ELSE IF nx.workflow_id # 0 THEN AfterBind(nx)
                                                  ELSE [nx EXCEPT !.pc = "create_wf"]]
    /\ UNCHANGED <<workflows, datasets, rows, persisted, users, cache, remote>>

\* (mutant) a workflow that has no Dataset yet is taken as a match
ScanStep_BindsEmpty(c) ==
    /\ calls[c].pc = "scan"
    /\ LET cl == [calls[c] EXCEPT !.reads = @ + 1]
           w == cl.wfs[cl.i]
           test_dataset == FirstDatasetOfWorkflow(w)
       IN calls' = [calls EXCEPT ![c] =
                       IF test_dataset.id = 0 \/ test_dataset.type = cl.task_type
                       THEN AfterBind([cl EXCEPT !.workflow_id = w])
                       ELSE IF cl.i = Len(cl.wfs)
                            THEN [cl EXCEPT !.pc = "create_wf"]
                            ELSE [cl EXCEPT !.i = @ + 1]]
    /\ UNCHANGED <<workflows, datasets, rows, persisted, users, cache, remote>>

\* (mutant) line 138 does not compare the type: a workflow with a Dataset of
\* any task type is a match
ScanStep_AnyType(c) ==
    /\ calls[c].pc = "scan"
    /\ LET cl == [calls[c] EXCEPT !.reads = @ + 1]
           w == cl.wfs[cl.i]
           test_dataset == FirstDatasetOfWorkflow(w)
       IN calls' = [calls EXCEPT ![c] =
                       IF test_dataset.id # 0
                       THEN AfterBind([cl EXCEPT !.workflow_id = w])
                       ELSE IF cl.i = Len(cl.wfs)
                            THEN [cl EXCEPT !.pc = "create_wf"]
                            ELSE [cl EXCEPT !.i = @ + 1]]
    /\ UNCHANGED <<workflows, datasets, rows, persisted, users, cache, remote>>

\* lines 135-143: one turn of the loop over the user's workflows
ScanStep(c) ==
    /\ calls[c].pc = "scan"
    /\ LET cl == [calls[c] EXCEPT !.reads = @ + 1]
           w == cl.wfs[cl.i]
           test_dataset == FirstDatasetOfWorkflow(w)
       IN calls' = [calls EXCEPT ![c] =
                       IF test_dataset.id # 0 /\ test_dataset.type = cl.task_type
                       THEN AfterBind([cl EXCEPT !.workflow_id = w])
                       ELSE IF cl.i = Len(cl.wfs)
                            THEN [cl EXCEPT !.pc = "create_wf"]
                            ELSE [cl EXCEPT !.i = @ + 1]]
    /\ UNCHANGED <<workflows, datasets, rows, persisted, users, cache, remote>>

\* (mutant) the workflow of line 149 is built and not saved
CreateWorkflow_NotSaved(c) ==
    /\ calls[c].pc = "create_wf"
    /\ LET w == Len(workflows) + 1
       IN calls' = [calls EXCEPT ![c] =
             AfterBind([@ EXCEPT !.workflow_id = w, !.created = TRUE, !.writes = @ + 1])]
    /\ UNCHANGED <<workflows, datasets, rows, persisted, users, cache, remote>>

\* lines 148-158
CreateWorkflow(c) ==
    /\ calls[c].pc = "create_wf"
    /\ LET w == Len(workflows) + 1
       IN /\ workflows' = Append(workflows,
                 [workflow_id |-> w, user_id |-> calls[c].user_id, type |-> "Training",
                  workflow_name |-> <<"training_", calls[c].task_type>>])
          /\ calls' = [calls EXCEPT ![c] =
                 AfterBind([@ EXCEPT !.workflow_id = w, !.created = TRUE, !.writes = @ + 1])]
    /\ UNCHANGED <<datasets, rows, persisted, users, cache, remote>>

\* (mutant) line 179 negated: a found uncached Dataset is not ingested
FindDataset_SkipIngest(c) ==
    /\ calls[c].pc = "find_ds"
    /\ LET cl == [calls[c] EXCEPT !.reads = @ + 1]
           d == FirstDatasetOfType(cl.task_type, cl.workflow_id)
       IN calls' = [calls EXCEPT ![c] =
                       IF d.id = 0
                       THEN [cl EXCEPT !.pc = "create_ds"]
                       ELSE [cl EXCEPT !.dataset_object = d, !.pc = "op"]]
    /\ UNCHANGED <<workflows, datasets, rows, persisted, users, cache, remote>>

\* (mutant) line 179 missing: cache_dataset runs whatever is_locally_cached
FindDataset_NoCachedCheck(c) ==
    /\ calls[c].pc = "find_ds"
    /\ LET cl == [calls[c] EXCEPT !.reads = @ + 1]
           d == FirstDatasetOfType(cl.task_type, cl.workflow_id)
       IN calls' = [calls EXCEPT ![c] =
                       IF d.id = 0
                       THEN [cl EXCEPT !.pc = "create_ds"]
                       ELSE StartCache([cl EXCEPT !.dataset_object = d], cl.dataset)]
    /\ UNCHANGED <<workflows, datasets, rows, persisted, users, cache, remote>>

\* (mutant) line 180 passes the reference rebuilt from the found Dataset,
\* as line 192 does
FindDataset_StoredRef(c) ==
    /\ calls[c].pc = "find_ds"
    /\ LET cl == [calls[c] EXCEPT !.reads = @ + 1]
           d == FirstDatasetOfType(cl.task_type, cl.workflow_id)
       IN calls' = [calls EXCEPT ![c] =
                       IF d.id = 0
                       THEN [cl EXCEPT !.pc = "create_ds"]
                       ELSE IF ~d.is_locally_cached
                            THEN StartCache([cl EXCEPT !.dataset_object = d],
                                            <<d.huggingface_id, d.name>>)
                            ELSE [cl EXCEPT !.dataset_object = d, !.pc = "op"]]
    /\ UNCHANGED <<workflows, datasets, rows, persisted, users, cache, remote>>

\* lines 163-169 and 179-180
FindDataset(c) ==
    /\ calls[c].pc = "find_ds"
    /\ LET cl == [calls[c] EXCEPT !.reads = @ + 1]
           d == FirstDatasetOfType(cl.task_type, cl.workflow_id)
       IN calls' = [calls EXCEPT ![c] =
                       IF d.id = 0
                       THEN [cl EXCEPT !.pc = "create_ds"]
                       ELSE IF ~d.is_locally_cached
                            THEN StartCache([cl EXCEPT !.dataset_object = d], cl.dataset)
                            ELSE [cl EXCEPT !.dataset_object = d, !.pc = "op"]]
    /\ UNCHANGED <<workflows, datasets, rows, persisted, users, cache, remote>>

\* lines 170-180
CreateDataset(c) ==
    /\ calls[c].pc = "create_ds"
    /\ LET cl == calls[c]
           d == [id |-> Len(datasets) + 1, workflow_id |-> cl.workflow_id,
                 huggingface_id |-> cl.dataset[1], name |-> cl.dataset[2],
                 type |-> cl.task_type, is_locally_cached |-> FALSE,
                 latest_commit_hash |-> ""]
       IN /\ datasets' = Append(datasets, d)
          /\ calls' = [calls EXCEPT ![c] =
                 StartCache([cl EXCEPT !.dataset_object = d, !.writes = @ + 1], cl.dataset)]
    /\ UNCHANGED <<workflows, rows, persisted, users, cache, remote>>

\* (mutant) line 192 passes the request's dataset parameter
FindWorkflowDataset_RequestRef(c) ==
    /\ calls[c].pc = "find_wf_ds"
    /\ LET cl == [calls[c] EXCEPT !.reads = @ + 1]
           d == FirstDatasetOfWorkflow(cl.workflow_id)
       IN calls' = [calls EXCEPT ![c] =
                       IF d.id = 0
                       THEN Raise(cl, "ValueError", <<"No dataset associated with the workflow.">>)
                       ELSE IF ~d.is_locally_cached
                            THEN StartCache([cl EXCEPT !.dataset_object = d], cl.dataset)
                            ELSE [cl EXCEPT !.dataset_object = d, !.pc = "op"]]
    /\ UNCHANGED <<workflows, datasets, rows, persisted, users, cache, remote>>

\* (mutant) line 188 missing: the workflow's Dataset is fetched again even
\* when it is cached
FindWorkflowDataset_Always(c) ==
    /\ calls[c].pc = "find_wf_ds"
    /\ LET cl == [calls[c] EXCEPT !.reads = @ + 1]
           d == FirstDatasetOfWorkflow(cl.workflow_id)
       IN calls' = [calls EXCEPT ![c] =
                       IF d.id = 0
                       THEN Raise(cl, "ValueError", <<"No dataset associated with the workflow.">>)
                       ELSE StartCache([cl EXCEPT !.dataset_object = d],
                                       <<d.huggingface_id, d.name>>)]
    /\ UNCHANGED <<workflows, datasets, rows, persisted, users, cache, remote>>

\* (mutant) lines 188-193 missing: the operation is reached without the
\* ingestion of a Dataset that is not cached
FindWorkflowDataset_NoIngestion(c) ==
    /\ calls[c].pc = "find_wf_ds"
    /\ LET cl == [calls[c] EXCEPT !.reads = @ + 1]
           d == FirstDatasetOfWorkflow(cl.workflow_id)
       IN calls' = [calls EXCEPT ![c] =
                       IF d.id = 0
                       THEN Raise(cl, "ValueError", <<"No dataset associated with the workflow.">>)
                       ELSE [cl EXCEPT !.dataset_object = d, !.pc = "op"]]
    /\ UNCHANGED <<workflows, datasets, rows, persisted, users, cache, remote>>

\* lines 183-193
FindWorkflowDataset(c) ==
    /\ calls[c].pc = "find_wf_ds"
    /\ LET cl == [calls[c] EXCEPT !.reads = @ + 1]
           d == FirstDatasetOfWorkflow(cl.workflow_id)
       IN calls' = [calls EXCEPT ![c] =
                       IF d.id = 0
                       THEN Raise(cl, "ValueError", <<"No dataset associated with the workflow.">>)
                       ELSE IF ~d.is_locally_cached
                            THEN StartCache([cl EXCEPT !.dataset_object = d],
                                            <<d.huggingface_id, d.name>>)
                            ELSE [cl EXCEPT !.dataset_object = d, !.pc = "op"]]
    /\ UNCHANGED <<workflows, datasets, rows, persisted, users, cache, remote>>

\* lines 228 and 233-234
RepoExists(c) ==
    /\ calls[c].pc = "repo_exists"
    /\ LET cl == [calls[c] EXCEPT !.hf = @ + 1]
       IN calls' = [calls EXCEPT ![c] =
                       IF Repo(cl.repo).exists
                       THEN [cl EXCEPT !.pc = "repo_info"]
                       ELSE Raise(cl, "FileNotFoundError", <<"Dataset not found.">>)]
    /\ UNCHANGED <<workflows, datasets, rows, persisted, users, cache, remote>>

\* line 229
RepoInfo(c) ==
    /\ calls[c].pc = "repo_info"
    /\ calls' = [calls EXCEPT ![c] =
                    [@ EXCEPT !.sha = Repo(calls[c].repo).sha, !.hf = @ + 1,
                              !.pc = "list_files"]]
    /\ UNCHANGED <<workflows, datasets, rows, persisted, users, cache, remote>>

\* (mutant) lines 247-248 missing: with no .csv file the loops have no turn
\* and line 283 is next
ListFiles_NoCsvCheck(c) ==
    /\ calls[c].pc = "list_files"
    /\ LET cl == [calls[c] EXCEPT !.hf = @ + 1,
                                  !.csv_file_names =
                                      FilterSeq(Repo(calls[c].repo).files, 1)]
       IN calls' = [calls EXCEPT ![c] =
                       IF cl.csv_file_names = << >>
                       THEN OpenFile(cl, 1)
                       ELSE [cl EXCEPT !.pc = "download"]]
    /\ UNCHANGED <<workflows, datasets, rows, persisted, users, cache, remote>>

\* lines 230-231; with no .csv name the loop of line 238 has no turn and
\* line 248 raises
ListFiles(c) ==
    /\ calls[c].pc = "list_files"
    /\ LET cl == [calls[c] EXCEPT !.hf = @ + 1,
                                  !.csv_file_names =
                                      FilterSeq(Repo(calls[c].repo).files, 1)]
       IN calls' = [calls EXCEPT ![c] =
                       IF cl.csv_file_names = << >>
                       THEN Raise(cl, "ValueError", <<"Dataset doesn't have any CSV files.">>)
                       ELSE [cl EXCEPT !.pc = "download"]]
    /\ UNCHANGED <<workflows, datasets, rows, persisted, users, cache, remote>>

\* lines 238-245: one turn of the download loop
Download(c) ==
    /\ calls[c].pc = "download"
    /\ LET name == calls[c].csv_file_names[Len(calls[c].csv_files) + 1]
           file == CHOOSE f \in Range(Repo(calls[c].repo).files) : f.name = name
           cl == [calls[c] EXCEPT !.hf = @ + 1, !.csv_files = Append(@, file)]
       IN calls' = [calls EXCEPT ![c] =
                       IF Len(cl.csv_files) = Len(cl.csv_file_names)
                       THEN OpenFile(cl, 1)
                       ELSE cl]
    /\ UNCHANGED <<workflows, datasets, rows, persisted, users, cache, remote>>

\* after row_data.save() of row ri of file fi: the next row, or the next file
NextRow(cl) ==
    IF cl.ri < Len(cl.csv_files[cl.fi].rows)
    THEN [cl EXCEPT !.ri = @ + 1]
    ELSE OpenFile(cl, cl.fi + 1)

\* (mutant) a row whose content is stored already under the Dataset is not
\* saved again
SaveRowInsert_Dedupe(c) ==
    /\ calls[c].pc = "save_row"
    /\ LET cl == calls[c]
           file == cl.csv_files[cl.fi]
           rec == RowData(c, cl, file, cl.ri)
           dup == \E r \in rows : /\ r.dataset = rec.dataset /\ r.file = rec.file
                                   /\ r.fields = rec.fields
       IN /\ \A r \in rows : r.id # rec.id
          /\ rows' = IF dup THEN rows ELSE rows \cup {rec}
          /\ persisted' = persisted \cup
                 {[call |-> c, dataset |-> rec.dataset, file |-> file.name, row |-> cl.ri]}
          /\ calls' = [calls EXCEPT ![c] = NextRow([cl EXCEPT !.writes = @ + 1])]
    /\ UNCHANGED <<workflows, datasets, users, cache, remote>>

\* lines 269-280, row_data.save() with no stored row of that id: an INSERT
SaveRowInsert(c) ==
    /\ calls[c].pc = "save_row"
    /\ LET cl == calls[c]
           file == cl.csv_files[cl.fi]
           rec == RowData(c, cl, file, cl.ri)
       IN /\ \A r \in rows : r.id # rec.id
          /\ rows' = rows \cup {rec}
          /\ persisted' = persisted \cup
                 {[call |-> c, dataset |-> rec.dataset, file |-> file.name, row |-> cl.ri]}
          /\ calls' = [calls EXCEPT ![c] = NextRow([cl EXCEPT !.writes = @ + 1])]
    /\ UNCHANGED <<workflows, datasets, users, cache, remote>>

\* row_data.save() when a row of that primary key is stored already, the
\* row's id being one kept from the source file: Model.save() issues an
\* UPDATE of the stored row
SaveRowUpdate(c) ==
    /\ calls[c].pc = "save_row"
    /\ LET cl == calls[c]
           file == cl.csv_files[cl.fi]
           rec == RowData(c, cl, file, cl.ri)
       IN /\ \E r \in rows : r.id = rec.id
          /\ rows' = {r \in rows : r.id # rec.id} \cup {rec}
          /\ persisted' = persisted \cup
                 {[call |-> c, dataset |-> rec.dataset, file |-> file.name, row |-> cl.ri]}
          /\ calls' = [calls EXCEPT ![c] = NextRow([cl EXCEPT !.writes = @ + 1])]
    /\ UNCHANGED <<workflows, datasets, users, cache, remote>>

\* ... or, where save() of a new instance skips the UPDATE, the INSERT
\* fails on the primary key and line 213 turns the error into a 500
SaveRowConflict(c) ==
    /\ calls[c].pc = "save_row"
    /\ LET cl == calls[c]
           rec == RowData(c, cl, cl.csv_files[cl.fi], cl.ri)
       IN /\ \E r \in rows : r.id = rec.id
          /\ calls' = [calls EXCEPT ![c] =
                 Raise([cl EXCEPT !.writes = @ + 1], "IntegrityError", <<"duplicate key">>)]
    /\ UNCHANGED <<workflows, datasets, rows, persisted, users, cache, remote>>

\* (mutant) line 283 missing: the hash is stored, the flag is not
SaveDataset_NoFlag(c) ==
    /\ calls[c].pc = "save_ds"
    /\ LET d == [calls[c].dataset_object EXCEPT !.latest_commit_hash = calls[c].sha]
       IN /\ datasets' = [datasets EXCEPT ![d.id] = d]
          /\ calls' = [calls EXCEPT ![c] =
                 [@ EXCEPT !.dataset_object = d, !.writes = @ + 1, !.pc = "op"]]
    /\ UNCHANGED <<workflows, rows, persisted, users, cache, remote>>

\* lines 283-285: dataset_object.save() writes every field of the call's copy
SaveDataset(c) ==
    /\ calls[c].pc = "save_ds"
    /\ LET d == [calls[c].dataset_object EXCEPT !.is_locally_cached = TRUE,
                                                !.latest_commit_hash = calls[c].sha]
       IN /\ datasets' = [datasets EXCEPT ![d.id] = d]
          /\ calls' = [calls EXCEPT ![c] =
                 [@ EXCEPT !.dataset_object = d, !.writes = @ + 1, !.pc = "op"]]
    /\ UNCHANGED <<workflows, rows, persisted, users, cache, remote>>

\* lines 198-205: the ids are attached and the wrapped operation is invoked
Op(c) ==
    /\ calls[c].pc = "op"
    /\ calls' = [calls EXCEPT ![c] = [@ EXCEPT !.op = TRUE, !.status = 200, !.pc = "done"]]
    /\ UNCHANGED <<workflows, datasets, rows, persisted, users, cache, remote>>

\* A request to the remote service fails.  The class of the exception is the
\* library's: an HTTP or connection error is an OSError, and hf_hub_download
\* reports a file it can neither fetch nor find in its local cache as a
\* LocalEntryNotFoundError, which is a FileNotFoundError and a ValueError.
RemoteErrors(pc) ==
    IF pc = "download" THEN {"HfHubHTTPError", "LocalEntryNotFoundError"}
                       ELSE {"HfHubHTTPError"}

\* the failures so far
Faults == Cardinality({c \in Calls : calls[c].fault # ""})

RemoteError(c) ==
    /\ Faults < MaxFaults
    /\ calls[c].pc \in {"repo_exists", "repo_info", "list_files", "download"}
    /\ \E exc \in RemoteErrors(calls[c].pc) :
          calls' = [calls EXCEPT ![c] =
                       Raise([@ EXCEPT !.hf = @ + 1, !.fault = "remote"], exc, <<"remote service">>)]
    /\ UNCHANGED <<workflows, datasets, rows, persisted, users, cache, remote>>

\* A query or a write of the store fails (connection lost, deadlock, ...):
\* nothing is read or written
StoreError(c) ==
    /\ Faults < MaxFaults
    /\ calls[c].pc \in {"query_wfs", "scan", "create_wf", "find_ds", "create_ds",
                         "find_wf_ds", "save_row", "save_ds"}
    /\ calls' = [calls EXCEPT ![c] =
                    Raise([@ EXCEPT !.fault = "store"], "OperationalError", <<"store">>)]
    /\ UNCHANGED <<workflows, datasets, rows, persisted, users, cache, remote>>

\* line 201: the wrapped operation raises; the exception passes through the
\* try block of dispatch
OpError(c) ==
    /\ Faults < MaxFaults
    /\ calls[c].pc = "op"
    /\ \E exc \in {"ValueError", "FileNotFoundError", "KeyError"} :
          calls' = [calls EXCEPT ![c] =
                       Raise([@ EXCEPT !.op = TRUE, !.fault = "op"], exc, <<"wrapped operation">>)]
    /\ UNCHANGED <<workflows, datasets, rows, persisted, users, cache, remote>>

\* the steps of a call after its first
Step(c) ==
    \/ QueryWorkflows(c)
    \/ ScanStep(c)
    \/ CreateWorkflow(c)
    \/ FindDataset(c)
    \/ CreateDataset(c)
    \/ FindWorkflowDataset(c)
    \/ RepoExists(c)
    \/ RepoInfo(c)
    \/ ListFiles(c)
    \/ Download(c)
    \/ SaveRowInsert(c)
    \/ SaveRowUpdate(c)
    \/ SaveRowConflict(c)
    \/ SaveDataset(c)
    \/ Op(c)

\* The call's last step read or wrote nothing another call can see, or its
\* next step does not: the reading of the request, the requests to the
\* remote service (whose repositories no call changes), and the wrapped
\* operation
Private(c) ==
    calls[c].pc \in {"query_wfs", "repo_exists", "repo_info", "list_files", "download", "op"}

\* Calls handled concurrently, two at a time.  A private step commutes with
\* the steps of the other calls, so it is taken together with the step next
\* to it: the other calls wait.  The first call is u1's (the users are interchangeable).
Next ==
    \E c \in Calls :
       /\ \A o \in Calls \ {c} : ~Private(o)
       /\ \/ \E u \in ConcUsers, t \in ConcTaskTypes, ref \in ConcRefs :
                /\ c = 1 => u = "u1"
                /\ Cardinality({o \in Calls : Active(o)}) <= 1
                /\ Dispatch(c, u, t, ref)
          \/ Step(c)

Spec == Init /\ [][Next]_vars

\* Calls handled one after the other, over all inputs; the first is u1's
SeqNext ==
    \E c \in Calls :
       \/ \E u \in Users, t \in TaskTypes, ref \in Refs :
             /\ c = 1 => u = "u1"
             /\ \A o \in Calls : ~Active(o)
             /\ Dispatch(c, u, t, ref)
       \/ Step(c)

SeqSpec == Init /\ [][SeqNext]_vars

\* the inputs of the calls during which the store, the remote service or the
\* wrapped operation may fail
FaultTaskTypes == {"t1", "bogus"}
FaultRefs == {NoRef, <<"a", "x">>, <<"b", "y">>, <<"c", "z">>, <<"e", "v">>, <<"n", "o">>, <<"bad">>}

\* Calls handled one after the other, any request to the store or to the
\* remote service and the wrapped operation being liable to fail
FaultNext ==
    \E c \in Calls :
       \/ \E t \in FaultTaskTypes, ref \in FaultRefs :
             /\ \A o \in Calls : ~Active(o)
             /\ Dispatch(c, "u1", t, ref)
       \/ Step(c)
       \/ RemoteError(c)
       \/ StoreError(c)
       \/ OpError(c)

FaultSpec == Init /\ [][FaultNext]_vars

\* the inputs of the calls that ingest sources with every form of row id
RowRefs == {NoRef, <<"a", "x">>, <<"d", "w">>, <<"e", "v">>}

\* Calls handled one after the other, of both users and task types, on the
\* sources whose rows carry valid, equal, malformed and no ids
RowNext ==
    \E c \in Calls :
       \/ \E u \in Users, t \in ConcTaskTypes, ref \in RowRefs :
             /\ c = 1 => u = "u1"
             /\ \A o \in Calls : ~Active(o)
             /\ Dispatch(c, u, t, ref)
       \/ Step(c)

RowSpec == Init /\ [][RowNext]_vars

\* The owner of a repository pushes its next commit: from now on repo_info,
\* list_repo_files and hf_hub_download, which name no revision, answer from
\* that commit
Push(ref) ==
    /\ ref \notin remote
    /\ RepoAt(ref, 2).exists
    /\ remote' = remote \cup {ref}
    /\ UNCHANGED <<workflows, datasets, rows, calls, persisted, users, cache>>

RemoteTaskTypes == {"t1"}
RemoteRefs == {NoRef, <<"a", "x">>, <<"b", "y">>}

\* Calls of one user handled concurrently, two at a time, while the remote
\* repositories receive commits
RemoteNext ==
    \/ \E c \in Calls :
          /\ \A o \in Calls \ {c} : ~Private(o)
          /\ \/ \E t \in RemoteTaskTypes, ref \in RemoteRefs :
                   /\ Cardinality({o \in Calls : Active(o)}) <= 1
                   /\ Dispatch(c, "u1", t, ref)
             \/ Step(c)
    \/ \E ref \in RemoteRefs : Push(ref)

RemoteSpec == Init /\ [][RemoteNext]_vars

IdTaskTypes == {"t1", "bogus"}
IdRefs == {NoRef, <<"a", "x">>}

\* a call is between its arrival and its response
InFlight(c) ==
    \/ Active(c)
    \/ calls[c].pc = "idle" /\ calls[c].idpc # "idle"

\* the steps of UserIDMixin.dispatch after the headers are checked
IdStep(c) ==
    \/ CacheGet(c)
    \/ StoreGet(c)
    \/ CreateUser(c)

\* Calls handled one after the other through UserIDMixin and then
\* CacheDatasetMixin, with any headers; entries of the cache expire (between
\* calls: a call reads the cache once, as its first step after the headers)
IdNext ==
    \/ \E c \in Calls :
          \/ \E tok \in Tokens, role \in Roles :
                /\ \A o \in Calls : ~InFlight(o)
                /\ Identify(c, tok, role)
          \/ IdStep(c)
          \/ \E t \in IdTaskTypes, ref \in IdRefs :
                /\ calls[c].idpc = "resolved"
                /\ Dispatch(c, calls[c].user.user_id, t, ref)
          \/ Step(c)
    \/ \E u \in Users :
          /\ \A o \in Calls : ~InFlight(o)
          /\ Expire(u)

IdSpec == Init /\ [][IdNext]_vars

(***************************************************************************)
(* Properties                                                              *)
(***************************************************************************)
Started(c) == calls[c].pc # "idle"
Done(c) == calls[c].pc = "done"

\* the step is one of call c
StepOf(c) == [calls'[c] EXCEPT !.alone = calls[c].alone] # calls[c]

\* the entries of persisted written by call c
PersistedBy(c) == {e \in persisted : e.call = c}

\* cache_dataset is running in call c
Ingesting(c) ==
    calls[c].pc \in {"repo_exists", "repo_info", "list_files", "download", "save_row", "save_ds"}

\* the Datasets of workflow w and task type t
DatasetsOf(w, t) ==
    {d \in DOMAIN datasets : datasets[d].workflow_id = w /\ datasets[d].type = t}

\* C1: after any sequence of non-overlapping calls the store holds at most
\* one Dataset for each (workflow id, task type) pair.
C1_OneDatasetPerPair ==
    \A d1, d2 \in DOMAIN datasets :
        (datasets[d1].workflow_id = datasets[d2].workflow_id
            /\ datasets[d1].type = datasets[d2].type) => d1 = d2

\* a later call with an explicit reference has bound a workflow that holds an
\* uncached Dataset of the task type and has resolved that Dataset
C1_Witness ==
    \E c \in Calls :
        /\ calls[c].dataset # NoRef /\ ~calls[c].created
        /\ calls[c].pc = "repo_exists"
        /\ calls[c].dataset_object.id # 0
        /\ Len(datasets) >= 2

\* every row of every .csv file of the repository that call c fetched from
\* has been saved by c under Dataset d
CompleteRun(c, d) ==
    /\ calls[c].dataset_object.id = d
    /\ Len(calls[c].repo) = 2
    /\ \E f \in Range(Repo(calls[c].repo).files) : IsCsv(f.name)
    /\ \A f \in Range(Repo(calls[c].repo).files) :
          IsCsv(f.name) =>
             \A i \in DOMAIN f.rows :
                [call |-> c, dataset |-> d, file |-> f.name, row |-> i] \in persisted

\* C2: in every reachable state a Dataset with is_locally_cached set has had
\* every row of every tabular file of one complete ingestion run persisted
\* under it.
C2_CachedOnlyAfterCompleteRun ==
    \A d \in DOMAIN datasets :
        datasets[d].is_locally_cached => \E c \in Calls : CompleteRun(c, d)

\* a Dataset is cached although an overlapping call failed while ingesting
\* into it
C2_Witness ==
    \E d \in DOMAIN datasets, c \in Calls :
        /\ datasets[d].is_locally_cached
        /\ Done(c) /\ calls[c].status = 400 /\ ~calls[c].alone
        /\ \E e \in PersistedBy(c) : e.dataset = d

CreatedDataset(c) ==
    /\ calls[c].created
    /\ calls[c].dataset_object.id # 0

\* two overlapping calls of one user and task type, each with an explicit
\* reference, have both found no Dataset and created one
DatasetRace(c1, c2) ==
    /\ c1 # c2
    /\ ~calls[c1].alone /\ ~calls[c2].alone
    /\ calls[c1].user_id = calls[c2].user_id
    /\ calls[c1].task_type = calls[c2].task_type
    /\ CreatedDataset(c1) /\ CreatedDataset(c2)

\* C4 (as stated): the find-then-create race of two concurrent calls leaves
\* two Dataset records for one (workflow id, task type) pair.
C4_RaceLeavesTwoDatasetsForOnePair ==
    (\E c1, c2 \in Calls : DatasetRace(c1, c2)) =>
        \E d1, d2 \in DOMAIN datasets :
            /\ d1 # d2
            /\ datasets[d1].workflow_id = datasets[d2].workflow_id
            /\ datasets[d1].type = datasets[d2].type

\* C4 (amended): a Dataset is created only by the call that created its
\* workflow, so under any interleaving no two Dataset records have the same
\* (workflow id, task type) pair; the race leaves two workflows instead.
C4_NoTwoDatasetsForOnePair ==
    /\ \A d \in DOMAIN datasets :
          /\ Cardinality(DatasetsOf(datasets[d].workflow_id, datasets[d].type)) = 1
          /\ \E c \in Calls : /\ CreatedDataset(c)
                              /\ calls[c].workflow_id = datasets[d].workflow_id
    /\ \A c1, c2 \in Calls :
          DatasetRace(c1, c2) => calls[c1].workflow_id # calls[c2].workflow_id

C4_Witness ==
    \E c1, c2 \in Calls :
        /\ DatasetRace(c1, c2)
        /\ calls[c1].dataset_object.id # calls[c2].dataset_object.id

\* C5: for a task type absent from the registry the call fails with 400
\* before any request to the remote service and any access to the store: no
\* record is read, created or changed and the wrapped operation is not
\* invoked.
C5_UnknownTaskTypeFailsFirst ==
    [][\A c \in Calls :
          (StepOf(c) /\ get_task_mapping(calls'[c].task_type) = NoMapping) =>
              /\ calls[c].pc = "idle"
              /\ calls'[c].pc = "done"
              /\ calls'[c].status = 400
              /\ calls'[c].error = <<"Please give a valid task type.">>
              /\ calls'[c].reads = 0 /\ calls'[c].writes = 0 /\ calls'[c].hf = 0
              /\ ~calls'[c].op
              /\ UNCHANGED <<workflows, datasets, rows, persisted>>]_vars

\* a call of an unknown task type has failed while the store holds a cached
\* Dataset of the caller
C5_Witness ==
    \E c \in Calls :
        /\ Done(c) /\ calls[c].task_type = "bogus" /\ calls[c].status = 400
        /\ \E d \in DOMAIN datasets :
              /\ datasets[d].is_locally_cached
              /\ workflows[datasets[d].workflow_id].user_id = calls[c].user_id

\* lines 163-166 of a call with an explicit reference: the step that looks
\* for the Dataset of (task type, workflow id)
C6_Find(c) ==
    LET S == DatasetsOf(calls[c].workflow_id, calls[c].task_type)
        d == calls'[c].dataset_object
    IN /\ datasets' = datasets
       /\ IF S = {}
          THEN calls'[c].pc = "create_ds"
          ELSE /\ d.id \in S
               /\ d = datasets[d.id]
               /\ IF d.is_locally_cached
                  THEN calls'[c].pc = "op" /\ calls'[c].hf = 0
                  ELSE calls'[c].pc = "repo_exists" /\ calls'[c].repo = calls[c].dataset

\* lines 170-180: the step that creates the Dataset
C6_Create(c) ==
    LET d == calls'[c].dataset_object
    IN /\ DatasetsOf(calls[c].workflow_id, calls[c].task_type) = {}
       /\ Len(datasets') = Len(datasets) + 1
       /\ \A k \in DOMAIN datasets : datasets'[k] = datasets[k]
       /\ d = datasets'[Len(datasets')]
       /\ d.id = Len(datasets')
       /\ d.type = calls[c].task_type /\ d.workflow_id = calls[c].workflow_id
       /\ <<d.huggingface_id, d.name>> = calls[c].dataset
       /\ ~d.is_locally_cached
       /\ calls'[c].pc = "repo_exists" /\ calls'[c].repo = calls[c].dataset

\* C6: with an explicit reference the resolver returns the existing Dataset
\* of (task type, workflow id) if there is one and otherwise creates exactly
\* one new uncached Dataset with that key; ingestion runs if and only if the
\* resolved Dataset is not cached.
C6_ExplicitReferenceResolution ==
    [][\A c \in Calls :
          (StepOf(c) /\ calls[c].dataset # NoRef) =>
              /\ calls[c].pc = "find_ds" => C6_Find(c)
              /\ calls[c].pc = "create_ds" => C6_Create(c)
              /\ calls[c].pc \notin {"create_ds", "save_ds"} => datasets' = datasets
              /\ (calls'[c].pc = "repo_exists" /\ calls[c].pc # "repo_exists")
                    => calls[c].pc \in {"find_ds", "create_ds"}]_vars

\* a call with an explicit reference has created its Dataset, and another
\* has found an existing cached Dataset and has not ingested
C6_Witness ==
    \E c1, c2 \in Calls :
        /\ calls[c1].dataset # NoRef /\ CreatedDataset(c1)
        /\ calls[c2].dataset # NoRef /\ ~calls[c2].created
        /\ Done(c2) /\ calls[c2].status = 200 /\ calls[c2].hf = 0
        /\ calls[c2].dataset_object.id # 0

\* C7: without an explicit reference and with created = False the resolver
\* uses the workflow's existing Dataset and creates none; if that Dataset is
\* uncached it ingests from "<huggingface_id>/<name>" of that Dataset, and if
\* it is cached nothing is fetched.
C7_WorkflowDatasetReuse ==
    [][\A c \in Calls :
          (StepOf(c) /\ calls[c].pc # "idle" /\ calls[c].dataset = NoRef) =>
              /\ Len(datasets') = Len(datasets)
              /\ calls[c].pc = "find_wf_ds" =>
                    LET d == calls'[c].dataset_object
                    IN /\ ~calls[c].created
                       /\ datasets' = datasets
                       /\ d.id \in DOMAIN datasets
                       /\ d = datasets[d.id]
                       /\ d.workflow_id = calls[c].workflow_id
                       /\ IF d.is_locally_cached
                          THEN calls'[c].pc = "op" /\ calls'[c].hf = 0
                          ELSE /\ calls'[c].pc = "repo_exists"
                               /\ calls'[c].repo = <<d.huggingface_id, d.name>>
                               /\ Len(calls'[c].repo) = 2
              /\ (calls'[c].pc = "repo_exists" /\ calls[c].pc # "repo_exists")
                    => calls[c].pc = "find_wf_ds"]_vars

\* a call without reference is ingesting from the reference rebuilt from the
\* uncached Dataset of its workflow
C7_Witness ==
    \E c \in Calls :
        /\ calls[c].dataset = NoRef /\ ~calls[c].created
        /\ calls[c].pc = "save_row"
        /\ calls[c].repo = <<calls[c].dataset_object.huggingface_id,
                             calls[c].dataset_object.name>>

Matching(u, t) ==
    {w \in DOMAIN workflows :
        /\ workflows[w].user_id = u
        /\ \E d \in DOMAIN datasets :
              /\ datasets[d].workflow_id = w
              /\ datasets[d].type = t
              /\ \A e \in DOMAIN datasets : datasets[e].workflow_id = w => d <= e}

Idempotent(c) ==
    /\ calls[c].hf = 0
    /\ calls[c].writes = 0
    /\ ~calls[c].created
    /\ PersistedBy(c) = {}
    /\ calls[c].dataset_object.id # 0 => calls[c].dataset_object.id \in calls[c].cached_before
    /\ calls[c].workflow_id # 0 =>
          \E d \in calls[c].cached_before : datasets[d].workflow_id = calls[c].workflow_id
    /\ Done(c) => (calls[c].status = 200 /\ calls[c].dataset_object.id # 0)

\* C10 (as stated): once a call has left a Dataset cached, any later call of
\* the same user and task type, with the same, a different or no explicit
\* reference, resolves to that workflow and Dataset, asks the remote service
\* nothing and leaves the store unchanged.
C10_LaterCallIdempotent ==
    \A c \in Calls :
        (Started(c) /\ calls[c].cached_before # {}) => Idempotent(c)

\* call c and the calls before it were handled one at a time
NoOverlapUpTo(c) == \A o \in Calls : o <= c => calls[o].alone

\* C10 (amended): the same, provided the calls up to and including the later
\* one did not overlap and the explicit reference, if one is given, has the
\* form "<repository>/<name>".
C10_LaterCallIdempotentSequential ==
    \A c \in Calls :
        (/\ Started(c) /\ calls[c].cached_before # {}
         /\ NoOverlapUpTo(c)
         /\ Len(calls[c].dataset) \in {0, 2}) => Idempotent(c)

\* a later call with a different explicit reference, no call so far having
\* overlapped another, has resolved to the cached Dataset
C10_Witness ==
    \E c \in Calls :
        /\ Done(c) /\ calls[c].cached_before # {}
        /\ NoOverlapUpTo(c)
        /\ Len(calls[c].dataset) = 2
        /\ calls[c].dataset #
              <<calls[c].dataset_object.huggingface_id, calls[c].dataset_object.name>>
        /\ calls[c].status = 200

\* the first source column of the schema of task type t that file f lacks,
\* "" if it has them all
C11_Lacking(t, f) ==
    LET m == get_task_mapping(t)
    IN IF \E k \in DOMAIN m : m[k].col \notin f.cols
       THEN m[CHOOSE k \in DOMAIN m :
                 /\ m[k].col \notin f.cols
                 /\ \A j \in DOMAIN m : j < k => m[j].col \in f.cols].col
       ELSE ""

\* the run of call c has all its files and has saved every row of the files
\* before the k-th
C11_Reached(c, k) ==
    /\ calls[c].csv_files # << >>
    /\ Len(calls[c].csv_files) = Len(calls[c].csv_file_names)
    /\ \A j \in 1..(k - 1) :
          \A i \in DOMAIN calls[c].csv_files[j].rows :
             \E e \in PersistedBy(c) : e.file = calls[c].csv_files[j].name /\ e.row = i

\* file k of the run of call c is the first that lacks a column
C11_FirstBad(c, k) ==
    /\ k \in DOMAIN calls[c].csv_files
    /\ C11_Lacking(calls[c].task_type, calls[c].csv_files[k]) # ""
    /\ \A j \in 1..(k - 1) : C11_Lacking(calls[c].task_type, calls[c].csv_files[j]) = ""

\* what holds of call c whose k-th file is the first to lack a column
C11_Inv(c, k) ==
    LET f == calls[c].csv_files[k]
        d == calls[c].dataset_object
    IN /\ \A e \in PersistedBy(c) : e.file # f.name
       /\ \A r \in rows : (r.dataset = d.id /\ r.id.gen # << >> /\ r.id.gen[1] = c)
                             => r.file # f.name
       /\ C11_Reached(c, k) =>
             /\ Done(c)
             /\ calls[c].status = 400
             /\ calls[c].error = <<"Column", C11_Lacking(calls[c].task_type, f), f.name>>
             /\ ~calls[c].op
             /\ ~d.is_locally_cached
             /\ \A e \in PersistedBy(c) :
                   \E r \in rows : /\ r.dataset = d.id /\ r.file = e.file
                                   /\ r.id = uuid4(c, e.file, e.row)

\* C11: when a tabular file lacks a source column of the task schema, the
\* run fails with 400 naming that column and that file before a row of that
\* file is saved; the rows it saved from earlier files stay in the store;
\* the run never sets is_locally_cached (its last step changes no Dataset),
\* and the Dataset is uncached when the run fails unless another call,
\* handled meanwhile, has set the flag.
C11_MissingColumnFails ==
    /\ [](\A c \in Calls : \A k \in DOMAIN calls[c].csv_files :
             C11_FirstBad(c, k) => C11_Inv(c, k))
    /\ [][\A c \in Calls :
             (/\ StepOf(c) /\ calls'[c].pc = "done"
              /\ calls'[c].error # << >> /\ calls'[c].error[1] = "Column")
             => /\ UNCHANGED <<workflows, datasets>>
                /\ calls[c].alone =>
                      ~datasets'[calls[c].dataset_object.id].is_locally_cached]_vars

\* a run has failed on its second file, the row of its first file is in the
\* store, and a later call has run into the same file
C11_Witness ==
    \E c \in Calls :
        /\ Done(c) /\ calls[c].status = 400
        /\ calls[c].error = <<"Column", "response", "two.csv">>
        /\ \E r \in rows : r.file = "one.csv" /\ r.id = uuid4(c, "one.csv", 1)
        /\ \E o \in Calls : o < c /\ calls[o].error = calls[c].error

\* C12: for an existing repository without any .csv file the run fails with
\* 400 after the existence check, the info request and the listing: nothing
\* is downloaded, no row is saved, and the Dataset is left uncached with no
\* commit hash.
C12_NoTabularFiles ==
    [][\A c \in Calls :
          (/\ StepOf(c) /\ calls[c].pc = "list_files"
           /\ Repo(calls[c].repo).exists
           /\ \A f \in Range(Repo(calls[c].repo).files) : ~IsCsv(f.name))
          => /\ calls'[c].pc = "done"
             /\ calls'[c].status = 400
             /\ calls'[c].error = <<"Dataset doesn't have any CSV files.">>
             /\ calls'[c].hf = 3
             /\ calls'[c].csv_files = << >>
             /\ ~calls'[c].op
             /\ PersistedBy(c) = {}
             /\ UNCHANGED <<workflows, datasets, rows, persisted, users, cache, remote>>
             /\ ~datasets'[calls[c].dataset_object.id].is_locally_cached
             /\ datasets'[calls[c].dataset_object.id].latest_commit_hash = ""]_vars

\* a call has failed so on a Dataset that an earlier failed call had left
\* uncached
C12_Witness ==
    \E c \in Calls :
        /\ Done(c) /\ calls[c].error = <<"Dataset doesn't have any CSV files.">>
        /\ ~calls[c].created
        /\ calls[c].dataset_object.id # 0
        /\ ~datasets[calls[c].dataset_object.id].is_locally_cached

\* the messages of the Validation failures of the pipeline
C16_ValidationMessages ==
    {"Please give a valid task type.", "Column", "Dataset doesn't have any CSV files.",
     "No dataset available.", "No dataset associated with the workflow.",
     "not enough values to unpack"}

\* call c has answered with an error
Failed(c) == Done(c) /\ calls[c].status # 200

C16_Translated(c) ==
    LET b == Bases(calls[c].exc)
    IN calls[c].status = IF "ValueError" \in b THEN 400
                         ELSE IF "FileNotFoundError" \in b THEN 404 ELSE 500

RECURSIVE SumRows(_, _)
\* the number of rows of the .csv files among fs[i..]
SumRows(fs, i) ==
    IF i > Len(fs) THEN 0
    ELSE (IF IsCsv(fs[i].name) THEN Len(fs[i].rows) ELSE 0) + SumRows(fs, i + 1)

\* the Row records stored under Dataset d
RowsOf(d) == {r \in rows : r.dataset = d}

\* the id under which the save recorded by e was made
SavedId(e) ==
    LET f == CHOOSE g \in Range(calls[e.call].csv_files) : g.name = e.file
    IN RowId(e.call, f, e.row)

\* call c failed inside cache_dataset after it had saved rows
FailedRun(c) == Failed(c) /\ PersistedBy(c) # {} /\ calls[c].fault # "op"

\* call o ran cache_dataset to its end
SucceededRun(o) ==
    /\ calls[o].pc \in {"op", "done"} /\ calls[o].exc = ""
    /\ calls[o].hf > 0

\* C13 (as stated): when a run that failed after saving rows is followed by
\* a run on the same Dataset that succeeds, the Dataset holds more Row
\* records than the source has rows.
C13_RetryDuplicatesRows ==
    \A c, o \in Calls :
        (/\ c < o /\ FailedRun(c) /\ SucceededRun(o)
         /\ calls[c].dataset_object.id = calls[o].dataset_object.id)
        => Cardinality(RowsOf(calls[o].dataset_object.id))
              > SumRows(Repo(calls[o].repo).files, 1)

\* what the store holds after failed and repeated runs
C13_Inv ==
    /\ \A e \in persisted :
          SavedId(e).gen # << >> =>
             \E r \in rows : r.id = SavedId(e) /\ r.dataset = e.dataset /\ r.file = e.file
    /\ \A d \in DOMAIN datasets :
          Cardinality({r \in RowsOf(d) : r.id.gen # << >>})
             = Cardinality({e \in persisted : e.dataset = d /\ SavedId(e).gen # << >>})
    /\ \A r1, r2 \in rows : r1.id = r2.id => r1 = r2
    /\ \A c \in Calls :
          /\ FailedRun(c) => ~calls[c].dataset_object.is_locally_cached
          /\ SucceededRun(c) => CompleteRun(c, calls[c].dataset_object.id)
    /\ \A c, o \in Calls :
          (/\ c < o /\ FailedRun(c) /\ SucceededRun(o)
           /\ calls[c].dataset_object.id = calls[o].dataset_object.id
           /\ \E e \in PersistedBy(c) : SavedId(e).gen # << >>)
          => Cardinality(RowsOf(calls[o].dataset_object.id))
                > SumRows(Repo(calls[o].repo).files, 1)

\* C13 (amended): the rows a failed run saved stay in the store and its
\* Dataset stays uncached; the next call resolving that Dataset runs the
\* whole ingestion again, from the first file.  Every save under a freshly
\* generated id adds a Row record, so such rows of the failed run are
\* duplicated by the retry; a row whose valid source id was kept is stored
\* once however often it is saved (the retry's save overwrites it or fails
\* on the primary key).
C13_RetryDuplicatesGeneratedRows ==
    /\ []C13_Inv
    /\ [][\A c \in Calls :
             (StepOf(c) /\ FailedRun(c)' /\ ~Done(c))
             => /\ datasets' = datasets
                /\ ~datasets'[calls[c].dataset_object.id].is_locally_cached
                /\ rows \subseteq rows']_vars

\* a retry without reference has succeeded on the Dataset of a run that
\* failed after its first row, and the Dataset holds three rows of a source
\* of two
C13_Witness ==
    \E c, o \in Calls :
        /\ c < o /\ FailedRun(c) /\ SucceededRun(o)
        /\ calls[o].dataset = NoRef
        /\ calls[c].dataset_object.id = calls[o].dataset_object.id
        /\ datasets[calls[o].dataset_object.id].is_locally_cached
        /\ Cardinality(RowsOf(calls[o].dataset_object.id)) = 3
        /\ SumRows(Repo(calls[o].repo).files, 1) = 2

\* the run of call c is past its last file and no other call has run since
JustIngested(c) == calls[c].pc \in {"save_ds", "op"} /\ calls[c].hf > 0

\* the ids under which the run of call c saved the rows of file f
IdsOf(c, f) == {RowId(c, f, i) : i \in DOMAIN f.rows}

\* C17: a successful ingestion of a file leaves one Row record for each
\* source row of the file under the Dataset, also when source rows carry
\* equal valid ids, each with the Dataset, the file name and the row's value
\* of the source column under every canonical field of the schema.
C17_OneRowPerSourceRow ==
    \A c \in Calls :
        JustIngested(c) =>
           \A k \in DOMAIN calls[c].csv_files :
              LET f == calls[c].csv_files[k]
                  d == calls[c].dataset_object.id
                  m == get_task_mapping(calls[c].task_type)
              IN /\ Cardinality({r \in RowsOf(d) : r.file = f.name /\ r.id \in IdsOf(c, f)})
                       = Len(f.rows)
                 /\ \A i \in DOMAIN f.rows :
                       \E r \in RowsOf(d) :
                          /\ r.file = f.name
                          /\ r.fields = {<<m[j].key, <<f.rows[i].val, m[j].col>>>> : j \in DOMAIN m}

\* x is a version 4 UUID, in whatever text form
C18_WellFormedV4(x) == x.parses /\ x.ver = 4

\* x is a version 4 UUID in the text form str(uuid.UUID) gives
C18_CanonicalV4(x) == x.parses /\ x.ver = 4 /\ x.canon

\* the save of row ri of file fi by call c, given which source ids are kept
C18_Save(c, Kept(_)) ==
    LET f == calls[c].csv_files[calls[c].fi]
        src == f.rows[calls[c].ri].id
        new == {r \in rows' : r.dataset = calls[c].dataset_object.id /\ r.file = f.name}
                  \ rows
    IN IF "id" \in f.cols /\ Kept(src)
       THEN \E r \in rows' : r.id = src /\ r.dataset = calls[c].dataset_object.id
       ELSE \E r \in new :
               /\ r.id.gen # << >>
               /\ C18_CanonicalV4(r.id)
               /\ \A q \in rows : q.id # r.id
               /\ \A e \in persisted : SavedId(e) # r.id

Resolved(c) == calls[c].idpc = "resolved"

\* the Users of a user_id in the store
StoredUsers(u) == {k \in DOMAIN users : users[k].user_id = u}

C14_Inv ==
    /\ \A u \in Users : Cardinality(StoredUsers(u)) <= 1
    /\ \A c \in Calls :
          Resolved(c) =>
             /\ calls[c].user.user_id = calls[c].token.uid
             /\ \E k \in DOMAIN users : users[k] = calls[c].user
             /\ calls[c].inserts = 1 => calls[c].lookups = 2
    /\ \A c, o \in Calls :
          (Resolved(c) /\ Resolved(o) /\ calls[c].token.uid = calls[o].token.uid)
             => calls[c].user = calls[o].user

C14_Step(c) ==
    /\ (calls[c].idpc \in {"cache_get", "store_get"} /\ calls'[c].idpc = "resolved")
          => users' = users /\ calls'[c].inserts = 0
    /\ calls'[c].inserts # calls[c].inserts
          => /\ calls[c].idpc = "create"
             /\ calls[c].lookups = 2
             /\ ~\E e \in cache : e.user_id = calls[c].user_id
             /\ StoredUsers(calls[c].user_id) = {}
             /\ users' = Append(users, [user_id |-> calls[c].token.uid,
                                         role |-> calls[c].role, is_active |-> TRUE])

\* C14: over calls handled one after the other the store receives at most
\* one User per user id, whatever the text form of the token and the role of
\* the later calls: a resolution that finds the User in the cache or in the
\* store returns that User and inserts nothing, and a User is inserted only
\* by a call that missed the cache and then the store.
C14_AtMostOneInsertion ==
    /\ []C14_Inv
    /\ [][\A c \in Calls : C14_Step(c)]_vars
    /\ [][Len(users') > Len(users) => \E c \in Calls : calls'[c].inserts = calls[c].inserts + 1]_vars

\* three calls of one user id, under two text forms of the token and two
\* roles: the first inserted the User, the second found it in the cache, the
\* third, after the entry had expired, in the store
C14_Witness ==
    /\ Resolved(1) /\ Resolved(2) /\ Resolved(3)
    /\ calls[1].token.uid = calls[2].token.uid /\ calls[2].token.uid = calls[3].token.uid
    /\ calls[1].token # calls[2].token /\ calls[1].role # calls[3].role
    /\ calls[1].inserts = 1
    /\ calls[2].lookups = 1
    /\ calls[3].lookups = 2 /\ calls[3].inserts = 0
    /\ calls[3].user.role = calls[1].role

\* the token is a UUID of version 4
ValidV4(tok) == tok.present /\ tok.parses /\ tok.ver = 4

\* C15: a call is answered 401 by identity resolution exactly when its token
\* is absent or not a valid version 4 UUID or its role is absent, and such a
\* call has looked up neither the cache nor the store, inserted nothing and
\* run nothing of the pipeline.
C15_RejectedExactly ==
    \A c \in Calls :
       calls[c].idpc # "idle" =>
          /\ calls[c].idpc = "rejected" <=>
                (~calls[c].token.present \/ ~ValidV4(calls[c].token) \/ calls[c].role = "")
          /\ calls[c].idpc = "rejected" =>
                /\ calls[c].status = 401 /\ calls[c].pc = "done"
                /\ calls[c].lookups = 0 /\ calls[c].inserts = 0
                /\ calls[c].reads = 0 /\ calls[c].writes = 0 /\ calls[c].hf = 0
                /\ ~calls[c].op

(***************************************************************************)
(* The order of the steps of a call                                        *)
(***************************************************************************)
WorkflowPcs == {"query_wfs", "scan", "create_wf"}
DatasetPcs == {"find_ds", "create_ds", "find_wf_ds", "repo_exists", "repo_info",
               "list_files", "download", "save_row", "save_ds"}

\* How far a call is: 0 not arrived, 1 in identity resolution, 2 identity
\* resolved (lines 110-130, with the task-schema lookup, are next), 3 in the
\* workflow resolve/create, 4 in the dataset resolution, 5 at the
\* attachment and the wrapped operation, 6 answered
Rank(cl) ==
    IF cl.pc = "done" THEN 6
    ELSE IF cl.pc = "op" THEN 5
    ELSE IF cl.pc \in DatasetPcs THEN 4
    ELSE IF cl.pc \in WorkflowPcs THEN 3
    ELSE IF cl.idpc = "resolved" THEN 2
    ELSE IF cl.idpc = "idle" THEN 0 ELSE 1

\* the task-schema lookup of line 127 has been made
LookedUp(cl) == cl.idpc = "resolved" /\ cl.pc # "idle"

\* what the steps a call is past have left
C20_Past(cl) ==
    /\ Rank(cl) \in 3..5 => cl.idpc = "resolved" /\ cl.user_id = cl.user.user_id
    /\ cl.pc \in DatasetPcs \cup {"op"} => cl.workflow_id # 0
    /\ cl.pc = "op" => /\ cl.dataset_object.id # 0
                       /\ cl.dataset_object.is_locally_cached
                       /\ cl.dataset_object.workflow_id = cl.workflow_id
    /\ cl.op => cl.pc = "done" /\ cl.status = 200 /\ cl.dataset_object.id # 0

\* a step takes a call to the next stage, or fails it
C20_Order(c) ==
    \/ Rank(calls'[c]) = Rank(calls[c])
    \/ Rank(calls'[c]) = Rank(calls[c]) + 1
    \/ calls'[c].pc = "done" /\ calls'[c].status # 200 /\ ~calls'[c].op

\* C20 as stated: the steps of a call are in the order identity resolution,
\* workflow resolve/create, task-schema lookup, dataset resolution,
\* attachment and wrapped operation, so that the workflow of a call is
\* resolved when its task schema is looked up.
C20_WorkflowBeforeSchemaLookup ==
    /\ [](\A c \in Calls : /\ C20_Past(calls[c])
                           /\ LookedUp(calls[c]) => calls[c].workflow_id # 0)
    /\ [][\A c \in Calls : C20_Order(c)]_vars

C20_Inv(cl) ==
    /\ C20_Past(cl)
    /\ cl.pc \in WorkflowPcs \cup DatasetPcs \cup {"op"} =>
          get_task_mapping(cl.task_type) # NoMapping
    /\ cl.workflow_id # 0 => get_task_mapping(cl.task_type) # NoMapping
    /\ (LookedUp(cl) /\ get_task_mapping(cl.task_type) = NoMapping) =>
          /\ cl.pc = "done" /\ cl.status = 400
          /\ cl.reads = 0 /\ cl.writes = 0

\* C20 (amended): the steps of a call are in the order identity resolution,
\* task-schema lookup, workflow resolve/create, dataset resolution,
\* attachment and wrapped operation: the workflow step starts only for a
\* task type whose schema was found, and a call of an unknown task type is
\* answered before the store is read.
C20_SchemaLookupBeforeWorkflow ==
    /\ [](\A c \in Calls : C20_Inv(calls[c]))
    /\ [][\A c \in Calls : C20_Order(c)]_vars

\* a call has gone through every step and been answered by the wrapped
\* operation after creating its workflow and ingesting its Dataset, and a
\* call of an unknown task type was answered 400 with no workflow
C20_Witness ==
    \E c, o \in Calls :
       /\ calls[c].op /\ calls[c].created /\ calls[c].lookups > 0 /\ calls[c].hf > 0
       /\ calls[o].idpc = "resolved" /\ calls[o].pc = "done" /\ calls[o].status = 400
       /\ get_task_mapping(calls[o].task_type) = NoMapping /\ calls[o].workflow_id = 0

(***************************************************************************)
(* The repository a Dataset is ingested from                               *)
(***************************************************************************)
\* the call has an explicit reference and is ingesting, or has ingested,
\* into the Dataset it found or created
IngestsExplicit(c) ==
    calls[c].dataset # NoRef /\ calls[c].repo # NoRef

C21_Inv(c) ==
    /\ calls[c].repo = calls[c].dataset
    /\ calls[c].sha # "" => calls[c].sha = Repo(calls[c].dataset).sha
    /\ \A k \in DOMAIN calls[c].csv_files :
          calls[c].csv_files[k] \in Range(Repo(calls[c].dataset).files)

C21_Step(c) ==
    LET d == FirstDatasetOfType(calls[c].task_type, calls[c].workflow_id)
    IN /\ (calls[c].pc = "find_ds" /\ d.id # 0 /\ ~d.is_locally_cached)
             => /\ calls'[c].pc = "repo_exists"
                /\ calls'[c].repo = calls[c].dataset
                /\ calls'[c].dataset_object = d
                /\ datasets' = datasets
       /\ (calls[c].pc = "save_ds" /\ calls[c].dataset # NoRef)
             => LET e == datasets'[calls[c].dataset_object.id]
                IN /\ e.is_locally_cached
                   /\ e.latest_commit_hash = Repo(calls[c].dataset).sha
                   /\ e.huggingface_id = calls[c].dataset_object.huggingface_id
                   /\ e.name = calls[c].dataset_object.name

\* the stored repository id and name of a Dataset never change
KeepsRepository ==
    \A d \in DOMAIN datasets :
       /\ datasets'[d].huggingface_id = datasets[d].huggingface_id
       /\ datasets'[d].name = datasets[d].name

\* C21: a call with an explicit reference that finds the Dataset of its
\* task type and workflow uncached ingests from the reference of the call,
\* whatever repository the Dataset records: the files and the hash are those
\* of the call's reference, and the Dataset's stored repository id and name
\* stay as they are.
C21_IngestsFromExplicitReference ==
    /\ [](\A c \in Calls : IngestsExplicit(c) => C21_Inv(c))
    /\ [][\A c \in Calls : StepOf(c) => C21_Step(c)]_vars
    /\ [][KeepsRepository]_vars

\* a Dataset that records repository b/y is cached with the hash and a row
\* of a/x
C21_Witness ==
    \E d \in DOMAIN datasets :
       /\ datasets[d].is_locally_cached
       /\ <<datasets[d].huggingface_id, datasets[d].name>> = <<"b", "y">>
       /\ datasets[d].latest_commit_hash = Repo(<<"a", "x">>).sha
       /\ \E r \in rows : r.dataset = d /\ r.file = "train.csv"

(***************************************************************************)
(* The cached flag and the content hash                                    *)
(***************************************************************************)
\* no two of the calls so far have overlapped
Sequential == \A c \in Calls : calls[c].alone

C22_FlagKept ==
    \A d \in DOMAIN datasets :
       datasets[d].is_locally_cached => datasets'[d].is_locally_cached

C22_HashKept ==
    \A d \in DOMAIN datasets :
       datasets[d].is_locally_cached =>
          datasets'[d].latest_commit_hash = datasets[d].latest_commit_hash

\* C22: no step sets is_locally_cached of a Dataset back to False, and while
\* the calls are handled one at a time no step changes the
\* latest_commit_hash of a cached Dataset, whatever commits the remote
\* repository receives.
C22_CachedOnce ==
    /\ [][C22_FlagKept]_vars
    /\ [][Sequential' => C22_HashKept]_vars

\* a Dataset was cached from the first commit of a/x, the repository has
\* received its next commit, and a later call with reference a/x has been
\* answered on that Dataset, which still records the first hash; no two
\* calls overlapped
C22_Witness ==
    \E d \in DOMAIN datasets : \E c \in Calls :
       /\ Sequential
       /\ datasets[d].is_locally_cached
       /\ datasets[d].latest_commit_hash = RepoAt(<<"a", "x">>, 1).sha
       /\ <<"a", "x">> \in remote
       /\ calls[c].pc = "done" /\ calls[c].status = 200 /\ calls[c].hf = 0
       /\ calls[c].dataset = <<"a", "x">> /\ calls[c].dataset_object.id = d

\* the commits of a repository
Versions == 1..2

\* C23: the hash a run stores on its Dataset is the hash of the commit its
\* files were downloaded from.
C23_HashIdentifiesIngestedContent ==
    \A c \in Calls :
       (calls[c].pc \in {"op", "done"} /\ calls[c].hf > 0 /\ calls[c].status \in {0, 200}) =>
          \E v \in Versions :
             /\ calls[c].dataset_object.latest_commit_hash = RepoAt(calls[c].repo, v).sha
             /\ \A k \in DOMAIN calls[c].csv_files :
                   calls[c].csv_files[k] \in Range(RepoAt(calls[c].repo, v).files)

(***************************************************************************)
(* The context of the wrapped operation                                    *)
(***************************************************************************)
\* request.META["workflow_id"] and request.META["cached_dataset_id"] of line
\* 198-199 name a workflow of the caller and a cached Dataset of that
\* workflow and of the requested task type
C24_Context(c) ==
    LET w == calls[c].workflow_id
        d == calls[c].dataset_object.id
    IN /\ w \in DOMAIN workflows
       /\ workflows[w].user_id = calls[c].user_id
       /\ d \in DOMAIN datasets
       /\ datasets[d].workflow_id = w
       /\ datasets[d].type = calls[c].task_type
       /\ datasets[d].is_locally_cached

\* the call has failed at no step
C24_NoFailure(c) ==
    /\ calls[c].idpc # "rejected"
    /\ calls[c].idpc = "resolved" => calls[c].user_id = calls[c].user.user_id
    /\ get_task_mapping(calls[c].task_type) # NoMapping
    /\ calls[c].exc = "" /\ calls[c].error = << >>
    /\ calls[c].status \in {0, 200}

\* C24: when the wrapped operation is invoked the call has failed at no
\* step, its workflow is one of the caller and its Dataset is a cached
\* Dataset of that workflow and of the requested task type; a call that has
\* failed has not invoked the operation.
C24_OperationContext ==
    /\ [](\A c \in Calls :
             /\ calls[c].pc = "op" => C24_Context(c) /\ C24_NoFailure(c)
             /\ calls[c].op => C24_Context(c) /\ C24_NoFailure(c)
             /\ (calls[c].pc = "done" /\ calls[c].status # 200) => ~calls[c].op)
    /\ [][\A c \in Calls : calls'[c].op /\ ~calls[c].op => calls[c].pc = "op"]_vars

\* the operation was invoked for a call that ingested its Dataset and for a
\* call that found it cached, and not for a call that failed in ingestion
C24_Witness ==
    \E c1, c2, c3 \in Calls :
       /\ calls[c1].op /\ calls[c1].hf > 0
       /\ calls[c2].op /\ calls[c2].hf = 0 /\ ~calls[c2].created
       /\ calls[c3].pc = "done" /\ calls[c3].status = 400 /\ calls[c3].hf > 0 /\ ~calls[c3].op

(***************************************************************************)
(* The Datasets of a workflow                                              *)
(***************************************************************************)
\* the Datasets of workflow w, of any task type
DatasetsOfWorkflow(w) == {d \in DOMAIN datasets : datasets[d].workflow_id = w}

C25_Inv ==
    /\ \A w \in DOMAIN workflows : Cardinality(DatasetsOfWorkflow(w)) <= 1
    /\ \A c \in Calls :
          /\ calls[c].pc = "create_ds" =>
                calls[c].created /\ DatasetsOfWorkflow(calls[c].workflow_id) = {}
          /\ (calls[c].pc = "find_ds" /\ ~calls[c].created) =>
                FirstDatasetOfType(calls[c].task_type, calls[c].workflow_id).id # 0

C25_Step(c) ==
    datasets' # datasets /\ calls[c].pc # "save_ds" =>
       /\ calls[c].pc = "create_ds" /\ calls[c].created
       /\ Len(datasets') = Len(datasets) + 1
       /\ datasets'[Len(datasets')].workflow_id = calls[c].workflow_id
       /\ \A d \in DOMAIN datasets : datasets'[d] = datasets[d]

\* C25: under any interleaving of calls every workflow has at most one
\* Dataset, of whatever task type: a Dataset is created only by the call that
\* created its workflow, and a call that binds an existing workflow finds the
\* Dataset of that workflow.
C25_OneDatasetPerWorkflow ==
    /\ []C25_Inv
    /\ [][\A c \in Calls : StepOf(c) => C25_Step(c)]_vars

\* a call with an explicit reference has bound an existing workflow and
\* found its Dataset, which records another repository, while the user has
\* a second workflow with a Dataset of the other task type
C25_Witness ==
    \E c \in Calls : \E w \in DOMAIN workflows :
       /\ ~calls[c].created /\ calls[c].dataset # NoRef
       /\ calls[c].dataset_object.id # 0
       /\ <<calls[c].dataset_object.huggingface_id, calls[c].dataset_object.name>>
             # calls[c].dataset
       /\ w # calls[c].workflow_id
       /\ workflows[w].user_id = calls[c].user_id
       /\ \E d \in DatasetsOfWorkflow(w) : datasets[d].type # calls[c].task_type

\* C26: no call fails with "No dataset associated with the workflow.": a
\* call that has bound an existing workflow (created = False) and has no
\* explicit reference finds, at line 184, a Dataset of that workflow, and it
\* is of the requested task type.
C26_NoReferenceBranchFindsDataset ==
    \A c \in Calls :
       /\ calls[c].error # <<"No dataset associated with the workflow.">>
       /\ calls[c].pc = "find_wf_ds" =>
             /\ ~calls[c].created /\ calls[c].dataset = NoRef
             /\ FirstDatasetOfWorkflow(calls[c].workflow_id).id # 0
             /\ FirstDatasetOfWorkflow(calls[c].workflow_id).type = calls[c].task_type
       /\ (~calls[c].created /\ calls[c].workflow_id # 0) =>
             \E d \in DatasetsOfWorkflow(calls[c].workflow_id) :
                datasets[d].type = calls[c].task_type

\* calls without reference have gone through line 184 on a workflow they
\* did not create, one finding its Dataset cached and one finding it not
C26_Witness ==
    \E c, o \in Calls :
       /\ calls[c].dataset = NoRef /\ ~calls[c].created
       /\ calls[c].pc = "done" /\ calls[c].status = 200 /\ calls[c].hf = 0
       /\ calls[o].dataset = NoRef /\ ~calls[o].created
       /\ calls[o].dataset_object.id # 0 /\ calls[o].hf > 0

(***************************************************************************)
(* What a failed call leaves in the store                                  *)
(***************************************************************************)
\* the calls that have created a workflow
Creators == {c \in Calls : calls[c].created}

C27_Inv ==
    /\ Len(workflows) = Cardinality(Creators)
    /\ \A c \in Creators :
          /\ calls[c].workflow_id \in DOMAIN workflows
          /\ workflows[calls[c].workflow_id].user_id = calls[c].user_id
          /\ \A o \in Creators : o # c => calls[o].workflow_id # calls[c].workflow_id
          /\ calls[c].dataset_object.id # 0 =>
                /\ calls[c].dataset_object.id \in DOMAIN datasets
                /\ datasets[calls[c].dataset_object.id].workflow_id = calls[c].workflow_id
    /\ \A c \in Calls :
          calls[c].error = <<"No dataset available.">> =>
             c \in Creators /\ DatasetsOfWorkflow(calls[c].workflow_id) = {}

\* no step removes or changes a Workflow or removes a Dataset
C27_Kept ==
    /\ Len(workflows') >= Len(workflows)
    /\ \A w \in DOMAIN workflows : workflows'[w] = workflows[w]
    /\ Len(datasets') >= Len(datasets)

\* C27: a call that matches no workflow persists exactly one new Workflow,
\* and its failure, of whatever kind, undoes neither the Workflow nor the
\* Dataset created for its explicit reference; a workflow left without
\* Dataset by a failing call without reference is never bound again, so
\* each such call leaves one more Workflow.
C27_FailedCallKeepsWorkflow ==
    /\ []C27_Inv
    /\ [][C27_Kept]_vars

\* two calls without reference have failed, and a third with a reference
\* has failed in ingestion: three workflows, the third with an uncached
\* Dataset
C27_Witness ==
    /\ Len(workflows) = 3
    /\ calls[1].error = <<"No dataset available.">>
    /\ calls[2].error = <<"No dataset available.">>
    /\ calls[3].pc = "done" /\ calls[3].status # 200 /\ calls[3].created
    /\ calls[3].dataset_object.id \in DOMAIN datasets
    /\ ~datasets[calls[3].dataset_object.id].is_locally_cached
    /\ \A c \in Calls : calls[c].user_id = "u1" /\ calls[c].task_type = "t1"

(***************************************************************************)
(* Two workflows of one user and task type                                 *)
(***************************************************************************)
\* the workflows of the Datasets of the caller's task type that were cached
\* when call c arrived
CachedWorkflowsBefore(c) == {datasets[d].workflow_id : d \in calls[c].cached_before}

\* c1 and c2 overlapped, are of one user and task type with an explicit
\* reference each, and each has created a workflow and a Dataset and saved
\* rows under it
C28_Race(c1, c2) ==
    /\ DatasetRace(c1, c2)
    /\ calls[c1].dataset # NoRef /\ calls[c2].dataset # NoRef
    /\ calls[c1].workflow_id # calls[c2].workflow_id
    /\ PersistedBy(c1) # {} /\ PersistedBy(c2) # {}
    /\ \A c \in {c1, c2} :
          /\ datasets[calls[c].dataset_object.id].workflow_id = calls[c].workflow_id
          /\ datasets[calls[c].dataset_object.id].type = calls[c].task_type

C29_BadHeaders(c) ==
    \/ ~calls[c].token.present
    \/ ~calls[c].token.parses
    \/ calls[c].role = ""

\* the call has looked up and written nothing and has no part in the
\* pipeline
C29_Untouched(c) ==
    /\ calls[c].pc = "done" /\ calls[c].status = 401
    /\ calls[c].lookups = 0 /\ calls[c].inserts = 0 /\ calls[c].user = NoUser
    /\ calls[c].reads = 0 /\ calls[c].writes = 0 /\ calls[c].hf = 0
    /\ calls[c].workflow_id = 0 /\ calls[c].dataset_object = NoDataset
    /\ PersistedBy(c) = {}
    /\ ~calls[c].op

\* C29: a call whose User-Id is absent or malformed or whose role is absent
\* is answered 401 by a step that leaves the cache and the User, Workflows,
\* Dataset and DatasetData tables as they are, makes no request to the
\* remote service and is the call's only step; the pipeline starts only for
\* a call whose identity is resolved.
C29_RejectedCallTouchesNothing ==
    /\ [](\A c \in Calls :
             /\ (calls[c].idpc # "idle" /\ C29_BadHeaders(c)) =>
                   calls[c].idpc = "rejected" /\ C29_Untouched(c)
             /\ calls[c].idpc = "rejected" => C29_BadHeaders(c)
             /\ (calls[c].pc # "idle" /\ calls[c].idpc # "rejected") =>
                   calls[c].idpc = "resolved")
    /\ [][\A c \in Calls :
             /\ (StepOf(c) /\ calls'[c].idpc = "rejected") =>
                   /\ calls[c].idpc = "idle"
                   /\ UNCHANGED <<workflows, datasets, rows, persisted, users, cache, remote>>
             /\ calls[c].idpc = "rejected" => ~StepOf(c)]_vars

\* a call was rejected while the cache and the tables held the records of
\* an earlier call, and a later call was answered by the wrapped operation
C29_Witness ==
    \E c1, c2, c3 \in Calls :
       /\ c1 < c2 /\ c2 < c3
       /\ calls[c1].op /\ calls[c1].inserts = 1
       /\ calls[c2].idpc = "rejected" /\ calls[c2].token.present /\ calls[c2].role = ""
       /\ calls[c3].op /\ calls[c3].lookups = 1
       /\ Len(users) = 1 /\ rows # {}

====
